---- MODULE Spec2Model ----
(***************************************************************************)
(* A model of the security core of RepoMCPConnector: the URL and path      *)
(* validators (app/security/validation.py), the repository cache manager   *)
(* (app/git_logic/repo_manager.py), the sandboxed bisect executor          *)
(* (app/security/sandboxing.py) and the bisect job (app/tasks/git_tasks.py)*)
(*                                                                         *)
(* Text is modelled as a sequence of symbols.  A symbol is either a        *)
(* delimiter character (":", "/", "@", ...) or a word: a non-empty run of  *)
(* characters none of which is a delimiter.                                *)
(***************************************************************************)
EXTENDS Integers, Sequences, FiniteSets, TLC

VARIABLES
    \* ---- repository cache (repo_manager.py) ----
    dir,        \* key -> state of the directory CLONE_DIR/<key>
    origin,     \* key -> URL of the origin remote recorded in that directory
    pc,         \* caller -> position inside get_repo
    url,        \* caller -> the repo_url argument of its current call
    ret,        \* caller -> outcome of its last finished call
    intact,     \* caller -> its running `git clone` has not been disturbed
    clones,     \* caller -> clone attempts of its current call
    fetches,    \* caller -> fetch attempts of its current call
    calls,      \* number of get_repo calls started so far
    dir0,       \* key -> state of the directory before the first call
    origin0,    \* key -> the origin remote recorded there before the first call
    prev,       \* caller -> the URL and the outcome of its call before this one
    faulted,    \* the remote or the file system has failed some operation
    \* ---- bisect job and sandbox (git_tasks.py, sandboxing.py) ----
    jstate,     \* job -> state a poller sees
    jresult,    \* job -> the dict run_bisect_task returned
    jpc,        \* position of the worker inside run_bisect_task
    jcur,       \* the job the worker is running, or ran last (0: none yet)
    jurl,       \* repo_url of that job
    cont,       \* job -> state, at the Docker daemon, of the container made for it
    cvar,       \* the local variable `container`: 0 for None, else the job
    sres,       \* what run_sandboxed_bisect is about to return
    dfault,     \* the daemon has failed a removal call
    clogs,      \* job -> what its container has printed
    image,      \* the image bitnami/git:latest is present at the daemon
    copts,      \* job -> the options its container was created with
    \* ---- pure functions under test (validation.py, sandboxing.py) ----
    fn,         \* which function was applied last ("none" before the first)
    arg,        \* its input
    out,        \* its result
    \* ---- request handlers (main.py) ----
    api         \* the request being handled, or handled last

cacheVars == <<dir, origin, pc, url, ret, intact, clones, fetches, calls, dir0, origin0, prev, faulted>>
fnVars    == <<fn, arg, out>>
jobVars   == <<jstate, jresult, jpc, jcur, jurl, cont, cvar, sres, dfault, clogs, image, copts>>
vars      == <<dir, origin, pc, url, ret, intact, clones, fetches, calls, dir0, origin0, prev, faulted,
               jstate, jresult, jpc, jcur, jurl, cont, cvar, sres, dfault, clogs, image, copts,
               fn, arg, out, api>>

(***************************************************************************)
(* Sequence helpers                                                        *)
(***************************************************************************)
RECURSIVE SeqsUpTo(_, _)
SeqsUpTo(S, n) ==
    IF n = 0 THEN {<< >>}
    ELSE LET shorter == SeqsUpTo(S, n - 1)
         IN  shorter \cup {Append(s, x) : s \in {t \in shorter : Len(t) = n - 1}, x \in S}

\* Python str.find for one symbol, 1-based; 0 when absent
Find(s, c) ==
    IF \E i \in 1..Len(s) : s[i] = c
    THEN CHOOSE i \in 1..Len(s) : s[i] = c /\ \A j \in 1..(i - 1) : s[j] # c
    ELSE 0

\* Python str.rfind for one symbol, 1-based; 0 when absent
RFind(s, c) ==
    IF \E i \in 1..Len(s) : s[i] = c
    THEN CHOOSE i \in 1..Len(s) : s[i] = c /\ \A j \in (i + 1)..Len(s) : s[j] # c
    ELSE 0

\* first position of any symbol of C; Len(s)+1 when there is none
FindAny(s, C) ==
    IF \E i \in 1..Len(s) : s[i] \in C
    THEN CHOOSE i \in 1..Len(s) : s[i] \in C /\ \A j \in 1..(i - 1) : s[j] \notin C
    ELSE Len(s) + 1

Prefix(s, n) == SubSeq(s, 1, n)
Suffix(s, n) == SubSeq(s, n, Len(s))

StartsWith(s, p) == Len(p) <= Len(s) /\ SubSeq(s, 1, Len(p)) = p
EndsWith(s, p)   == Len(p) <= Len(s) /\ SubSeq(s, Len(s) - Len(p) + 1, Len(s)) = p

(***************************************************************************)
(* URL validator: validation.py, is_safe_git_url                           *)
(***************************************************************************)
\* delimiters the URL grammar gives a meaning to
UrlDelims == {":", "/", "@", "?", "#", ";"}

\* a character class without the dot
PathClassNoDot(c) == c \notin UrlDelims /\ c # "."

\* characters of the path pattern's class [A-Za-z0-9_.-]: every word symbol
\* of the model is made of them, and so is the dot
PathClass(c) == c \notin UrlDelims

\* urllib's scheme_chars: letters, digits and "+-."
SchemeChar(c) == c \notin UrlDelims

\* str.lower on a scheme
Lower(w) == IF w = "HTTPS" THEN "https" ELSE w

\* urlsplit, scheme: the text before the first ":" when it is made of scheme
\* characters only, lower-cased; the rest follows the ":"
SplitScheme(u) ==
    LET i == Find(u, ":")
    IN  IF i > 1 /\ \A k \in 1..(i - 1) : SchemeChar(u[k])
        THEN [scheme |-> [k \in 1..(i - 1) |-> Lower(u[k])], rest |-> Suffix(u, i + 1)]
        ELSE [scheme |-> << >>, rest |-> u]

\* urlsplit, netloc: after "//", up to the first of "/", "?", "#"
SplitNetloc(r) ==
    IF StartsWith(r, <<"/", "/">>)
    THEN LET body  == Suffix(r, 3)
             delim == FindAny(body, {"/", "?", "#"})
         IN  [netloc |-> Prefix(body, delim - 1), rest |-> Suffix(body, delim)]
    ELSE [netloc |-> << >>, rest |-> r]

\* urlsplit, fragment then query
SplitFragment(r) ==
    LET i == Find(r, "#")
    IN  IF i > 0 THEN [rest |-> Prefix(r, i - 1), fragment |-> Suffix(r, i + 1)]
        ELSE [rest |-> r, fragment |-> << >>]

SplitQuery(r) ==
    LET i == Find(r, "?")
    IN  IF i > 0 THEN [rest |-> Prefix(r, i - 1), query |-> Suffix(r, i + 1)]
        ELSE [rest |-> r, query |-> << >>]

\* urlparse, _splitparams: the ";params" of the last path segment
SplitParams(p) ==
    LET slash == RFind(p, "/")
        tail  == Suffix(p, slash + 1)
        i     == Find(tail, ";")
    IN  IF i > 0 THEN Prefix(p, slash + i - 1) ELSE p

\* Python's None where a string is expected
None == <<"None">>

\* the username and password properties: netloc.rpartition("@"), then
\* userinfo.partition(":")
UserInfo(netloc) ==
    LET at == RFind(netloc, "@")
        info == Prefix(netloc, at - 1)
        colon == Find(info, ":")
    IN  IF at = 0 THEN [username |-> None, password |-> None]
        ELSE IF colon = 0 THEN [username |-> info, password |-> None]
        ELSE [username |-> Prefix(info, colon - 1), password |-> Suffix(info, colon + 1)]

urlparse(u) ==
    LET s == SplitScheme(u)
        n == SplitNetloc(s.rest)
        f == SplitFragment(n.rest)
        q == SplitQuery(f.rest)
        c == UserInfo(n.netloc)
    IN  [scheme |-> s.scheme, netloc |-> n.netloc, path |-> SplitParams(q.rest),
         query |-> q.query, fragment |-> f.fragment,
         username |-> c.username, password |-> c.password]

\* Python truthiness of an optional string
Truthy(x) == x # None /\ x # << >>

allowed_domains == {<<"github.com">>, <<"gitlab.com">>, <<"bitbucket.org">>}

\* `parsed.netloc not in allowed_domains` and the subdomain test, as written:
\* both read netloc, not the host
NetlocAllowed(netloc) ==
    \/ netloc \in allowed_domains
    \/ \E d \in allowed_domains : EndsWith(netloc, <<".">> \o d)

\* re.match(r'^/[A-Za-z0-9_.-]+/[A-Za-z0-9_.-]+(\.git)?/?$', path): "/", a
\* non-empty run of class characters, "/", another such run (the class holds
\* every character of ".git"), an optional last "/"
PathMatches(p) ==
    \E a \in 3..Len(p), e \in {Len(p) - 1, Len(p)} :
        /\ p[1] = "/"
        /\ \A k \in 2..(a - 1) : PathClass(p[k])
        /\ p[a] = "/"
        /\ e > a
        /\ \A k \in (a + 1)..e : PathClass(p[k])
        /\ (e = Len(p) - 1 => p[Len(p)] = "/")

is_safe_git_url(u) ==
    LET parsed == urlparse(u)
    IN  /\ parsed.scheme = <<"https">>
        /\ parsed.netloc # << >>
        /\ NetlocAllowed(parsed.netloc)
        /\ PathMatches(parsed.path)
        /\ ~ (Truthy(parsed.query) \/ Truthy(parsed.fragment)
              \/ Truthy(parsed.username) \/ Truthy(parsed.password))

(***************************************************************************)
(* Repository cache manager: repo_manager.py, get_repo and _clone_repo     *)
(*                                                                         *)
(* Each caller runs get_repo one file-system or git operation at a time;   *)
(* the code takes no lock, so the operations of two callers interleave.    *)
(* A directory is                                                          *)
(*   "absent"   not there                                                  *)
(*   "nogit"    there, without a .git directory                            *)
(*   "badmeta"  there with a .git directory that is no repository          *)
(*              (Repo() raises InvalidGitRepositoryError)                  *)
(*   "badhist"  a repository whose fetch fails (rewritten history)         *)
(*   "partial"  being written by a running `git clone`                     *)
(*   "valid"    a complete clone                                           *)
(***************************************************************************)
MaxCalls == 2

Callers == {"c1", "c2"}

UrlA   == <<"https", ":", "/", "/", "github.com", "/", "o", "/", "r">>
UrlB   == <<"https", ":", "/", "/", "gitlab.com", "/", "o", "/", "r">>
UrlBad == <<"ssh", ":", "/", "/", "github.com", "/", "o", "/", "r">>
CacheUrls == {UrlA, UrlB, UrlBad}
NoUrl  == << >>

CLONE_DIR == <<"/", "app", "/", "clones">>

\* hashlib.md5(repo_url.encode()).hexdigest(): one digest per URL
md5(u) == <<"md5">> \o u

\* os.path.join(CLONE_DIR, repo_hash)
RepoPath(u) == CLONE_DIR \o <<"/">> \o md5(u)

Keys == {md5(u) : u \in CacheUrls}

RestStates == {"absent", "nogit", "badmeta", "badhist", "valid"}
DirStates  == RestStates \cup {"partial"}

NoRet == [kind |-> "none", path |-> << >>]
Raised(e) == [kind |-> e, path |-> << >>]
Returned(path) == [kind |-> "path", path |-> path]

Key(c) == md5(url[c])

\* os.path.exists(repo_path)
Exists(k) == dir[k] # "absent"

\* a test that finds no .git directory anywhere
NoGitDir(k) == FALSE

\* os.path.isdir(os.path.join(repo_path, '.git')) for a directory at rest
HasGitDir(k) == dir[k] \in {"badmeta", "badhist", "valid"}

\* a removal that takes every directory of the cache root with it
AfterRmtreeAll(c, k) ==
    /\ dir' = [j \in Keys |-> "absent"]
    /\ origin' = [j \in Keys |-> NoUrl]
    /\ intact' = [q \in Callers |-> IF q # c /\ pc[q] = "cloning" THEN FALSE ELSE intact[q]]

\* shutil.rmtree(repo_path) succeeding: the directory is gone, and a clone
\* another caller has running into it has lost its files
AfterRmtree(c, k) ==
    /\ dir' = [dir EXCEPT ![k] = "absent"]
    /\ origin' = [origin EXCEPT ![k] = NoUrl]
    /\ intact' = [q \in Callers |-> IF q # c /\ pc[q] = "cloning" /\ Key(q) = k
                                    THEN FALSE ELSE intact[q]]

\* no call before this one
NoPrev == [url |-> NoUrl, ret |-> NoRet]

CacheInit ==
    /\ dir \in [Keys -> RestStates]
    /\ dir[md5(UrlBad)] \in {"absent", "nogit"}
    /\ origin \in [Keys -> {NoUrl, UrlA, UrlB}]
    /\ \A k \in Keys : (origin[k] # NoUrl) <=> (dir[k] \in {"badhist", "valid"})
    /\ dir0 = dir
    /\ origin0 = origin
    /\ prev = [c \in Callers |-> NoPrev]
    /\ pc = [c \in Callers |-> "idle"]
    /\ url = [c \in Callers |-> NoUrl]
    /\ ret = [c \in Callers |-> NoRet]
    /\ intact = [c \in Callers |-> FALSE]
    /\ clones = [c \in Callers |-> 0]
    /\ fetches = [c \in Callers |-> 0]
    /\ calls = 0
    /\ faulted = FALSE

\* a call that does not check its URL
CallBodyUnchecked(c, u) ==
    /\ pc[c] \in {"idle", "returned", "raised"}
    /\ calls' = calls + 1
    /\ url' = [url EXCEPT ![c] = u]
    /\ clones' = [clones EXCEPT ![c] = 0]
    /\ fetches' = [fetches EXCEPT ![c] = 0]
    /\ prev' = [prev EXCEPT ![c] = [url |-> url[c], ret |-> ret[c]]]
    /\ pc' = [pc EXCEPT ![c] = "check"] /\ ret' = [ret EXCEPT ![c] = NoRet]
    /\ UNCHANGED <<dir, origin, intact, dir0, origin0, faulted>>

\* lines 18-36: the call, the URL check, the path
CallBody(c, u) ==
    /\ pc[c] \in {"idle", "returned", "raised"}
    /\ calls' = calls + 1
    /\ url' = [url EXCEPT ![c] = u]
    /\ clones' = [clones EXCEPT ![c] = 0]
    /\ fetches' = [fetches EXCEPT ![c] = 0]
    /\ prev' = [prev EXCEPT ![c] = [url |-> url[c], ret |-> ret[c]]]
    /\ IF is_safe_git_url(u)
       THEN pc' = [pc EXCEPT ![c] = "check"] /\ ret' = [ret EXCEPT ![c] = NoRet]
       ELSE pc' = [pc EXCEPT ![c] = "raised"] /\ ret' = [ret EXCEPT ![c] = Raised("ValueError")]
    /\ UNCHANGED <<dir, origin, intact, dir0, origin0, faulted>>

Call(c, u) == calls < MaxCalls /\ CallBody(c, u)

\* line 39: does the directory hold a .git directory?  A directory another
\* caller's clone is writing may or may not have it yet.
Check(c) ==
    /\ pc[c] = "check"
    /\ \E git \in BOOLEAN :
        /\ IF dir[Key(c)] = "partial" THEN TRUE ELSE git = HasGitDir(Key(c))
        /\ pc' = [pc EXCEPT ![c] = IF git THEN "open" ELSE "rm_stale"]
    /\ UNCHANGED <<dir, origin, url, ret, intact, clones, fetches, calls, dir0, origin0, prev, faulted>>

\* line 42: Repo(repo_path).  NoSuchPathError and InvalidGitRepositoryError
\* are no GitCommandError: line 62 turns them into RuntimeError, and the
\* directory stays as it is.
Open(c) ==
    /\ pc[c] = "open"
    /\ \E ok \in BOOLEAN :
        /\ CASE dir[Key(c)] \in {"valid", "badhist"} -> ok
             [] dir[Key(c)] = "partial" -> TRUE
             [] OTHER -> ~ok
        /\ IF ok
           THEN pc' = [pc EXCEPT ![c] = "remote"] /\ ret' = ret
           ELSE pc' = [pc EXCEPT ![c] = "raised"] /\ ret' = [ret EXCEPT ![c] = Raised("RuntimeError")]
    /\ UNCHANGED <<dir, origin, url, intact, clones, fetches, calls, dir0, origin0, prev, faulted>>

\* a refresh that fetches from whatever origin the clone has
RemoteKeepsUrl(c) ==
    /\ pc[c] = "remote"
    /\ \/ /\ dir[Key(c)] \in {"valid", "badhist", "partial"}
          /\ pc' = [pc EXCEPT ![c] = "fetching"]
          /\ UNCHANGED <<origin, ret, faulted>>
       \/ /\ dir[Key(c)] \notin {"valid", "badhist", "partial"}
          /\ pc' = [pc EXCEPT ![c] = "raised"]
          /\ ret' = [ret EXCEPT ![c] = Raised("RuntimeError")]
          /\ UNCHANGED <<origin, faulted>>
    /\ UNCHANGED <<dir, url, intact, clones, fetches, calls, dir0, origin0, prev>>

\* lines 45-47: compare the origin URL, set it when it differs
Remote(c) ==
    /\ pc[c] = "remote"
    /\ \/ /\ dir[Key(c)] \in {"valid", "badhist", "partial"}
          /\ origin' = [origin EXCEPT ![Key(c)] = url[c]]
          /\ pc' = [pc EXCEPT ![c] = "fetching"]
          /\ UNCHANGED <<ret, faulted>>
       \/ \* `git remote set-url` fails: GitCommandError, line 52
          /\ dir[Key(c)] \in {"valid", "badhist", "partial"}
          /\ origin[Key(c)] # url[c]
          /\ pc' = [pc EXCEPT ![c] = "rm_recover"]
          /\ faulted' = TRUE
          /\ UNCHANGED <<origin, ret>>
       \/ \* the repository is gone: no origin remote to read, line 62
          /\ dir[Key(c)] \notin {"valid", "badhist", "partial"}
          /\ pc' = [pc EXCEPT ![c] = "raised"]
          /\ ret' = [ret EXCEPT ![c] = Raised("RuntimeError")]
          /\ UNCHANGED <<origin, faulted>>
    /\ UNCHANGED <<dir, url, intact, clones, fetches, calls, dir0, origin0, prev>>

\* line 50: repo.remotes.origin.fetch() ends
Fetch(c) ==
    /\ pc[c] = "fetching"
    /\ fetches' = [fetches EXCEPT ![c] = @ + 1]
    /\ \/ /\ dir[Key(c)] = "valid"
          /\ pc' = [pc EXCEPT ![c] = "return"]
          /\ UNCHANGED faulted
       \/ \* the remote cannot be reached: GitCommandError, line 52
          /\ dir[Key(c)] = "valid"
          /\ pc' = [pc EXCEPT ![c] = "rm_recover"]
          /\ faulted' = TRUE
       \/ \* nothing to fetch into, or history that no longer fits: line 52
          /\ dir[Key(c)] # "valid"
          /\ pc' = [pc EXCEPT ![c] = "rm_recover"]
          /\ UNCHANGED faulted
    /\ UNCHANGED <<dir, origin, url, ret, intact, clones, calls, dir0, origin0, prev>>

\* lines 55-58: shutil.rmtree before the re-clone; OSError becomes RuntimeError
RmRecover(c) ==
    /\ pc[c] = "rm_recover"
    /\ \/ /\ Exists(Key(c))
          /\ AfterRmtree(c, Key(c))
          /\ pc' = [pc EXCEPT ![c] = "clone"]
          /\ UNCHANGED <<ret, faulted>>
       \/ \* the file system refuses
          /\ Exists(Key(c))
          /\ pc' = [pc EXCEPT ![c] = "raised"]
          /\ ret' = [ret EXCEPT ![c] = Raised("RuntimeError")]
          /\ faulted' = TRUE
          /\ UNCHANGED <<dir, origin, intact>>
       \/ \* the directory is gone already: FileNotFoundError is an OSError
          /\ ~Exists(Key(c))
          /\ pc' = [pc EXCEPT ![c] = "raised"]
          /\ ret' = [ret EXCEPT ![c] = Raised("RuntimeError")]
          /\ UNCHANGED <<dir, origin, intact, faulted>>
    /\ UNCHANGED <<url, clones, fetches, calls, dir0, origin0, prev>>

\* lines 66-70: remove what is there without a .git; OSError is ignored
RmStale(c) ==
    /\ pc[c] = "rm_stale"
    /\ pc' = [pc EXCEPT ![c] = "clone"]
    /\ \/ /\ Exists(Key(c))
          /\ AfterRmtree(c, Key(c))
          /\ UNCHANGED faulted
       \/ /\ Exists(Key(c))
          /\ faulted' = TRUE
          /\ UNCHANGED <<dir, origin, intact>>
       \/ /\ ~Exists(Key(c))
          /\ UNCHANGED <<dir, origin, intact, faulted>>
    /\ UNCHANGED <<url, ret, clones, fetches, calls, dir0, origin0, prev>>

\* line 84: Repo.clone_from starts `git clone`, which refuses a directory
\* that exists and is not empty
CloneStart(c) ==
    /\ pc[c] = "clone"
    /\ clones' = [clones EXCEPT ![c] = @ + 1]
    /\ IF Exists(Key(c))
       THEN /\ pc' = [pc EXCEPT ![c] = "cleanup"]
            /\ UNCHANGED <<dir, origin, intact>>
       ELSE /\ pc' = [pc EXCEPT ![c] = "cloning"]
            /\ dir' = [dir EXCEPT ![Key(c)] = "partial"]
            /\ origin' = [origin EXCEPT ![Key(c)] = url[c]]
            /\ intact' = [intact EXCEPT ![c] = TRUE]
    /\ UNCHANGED <<url, ret, fetches, calls, dir0, origin0, prev, faulted>>

\* line 84: `git clone` ends
CloneEnd(c) ==
    /\ pc[c] = "cloning"
    /\ intact' = [intact EXCEPT ![c] = FALSE]
    /\ \/ /\ intact[c]
          /\ dir' = [dir EXCEPT ![Key(c)] = "valid"]
          /\ pc' = [pc EXCEPT ![c] = "return"]
          /\ UNCHANGED faulted
       \/ \* the remote fails the clone: lines 87 and 93
          /\ intact[c]
          /\ pc' = [pc EXCEPT ![c] = "cleanup"]
          /\ faulted' = TRUE
          /\ UNCHANGED dir
       \/ \* its files were removed under it
          /\ ~intact[c]
          /\ pc' = [pc EXCEPT ![c] = "cleanup"]
          /\ UNCHANGED <<dir, faulted>>
    /\ UNCHANGED <<origin, url, ret, clones, fetches, calls, dir0, origin0, prev>>

\* a failed clone that is tried again after the cleanup
CleanupRetries(c) ==
    /\ pc[c] = "cleanup"
    /\ pc' = [pc EXCEPT ![c] = "clone"]
    /\ UNCHANGED <<dir, origin, intact, faulted>>
    /\ UNCHANGED <<url, ret, clones, fetches, calls, dir0, origin0, prev>>

\* lines 87-90 and 93-95: rmtree(ignore_errors=True) when the path exists
Cleanup(c) ==
    /\ pc[c] = "cleanup"
    /\ pc' = [pc EXCEPT ![c] = "raise"]
    /\ \/ /\ Exists(Key(c))
          /\ AfterRmtree(c, Key(c))
          /\ UNCHANGED faulted
       \/ /\ Exists(Key(c))
          /\ faulted' = TRUE
          /\ UNCHANGED <<dir, origin, intact>>
       \/ /\ ~Exists(Key(c))
          /\ UNCHANGED <<dir, origin, intact, faulted>>
    /\ UNCHANGED <<url, ret, clones, fetches, calls, dir0, origin0, prev>>

\* lines 91 and 96: the RuntimeError reaches the caller of get_repo
Raise(c) ==
    /\ pc[c] = "raise"
    /\ pc' = [pc EXCEPT ![c] = "raised"]
    /\ ret' = [ret EXCEPT ![c] = Raised("RuntimeError")]
    /\ UNCHANGED <<dir, origin, url, intact, clones, fetches, calls, dir0, origin0, prev, faulted>>

\* lines 74 and 85: return repo_path
Return(c) ==
    /\ pc[c] = "return"
    /\ pc' = [pc EXCEPT ![c] = "returned"]
    /\ ret' = [ret EXCEPT ![c] = Returned(RepoPath(url[c]))]
    /\ UNCHANGED <<dir, origin, url, intact, clones, fetches, calls, dir0, origin0, prev, faulted>>

FnIdle == fn = "none" /\ arg = << >> /\ out = << >>

\* validate_safe_path has not been called in the request
NotRun == [ok |-> FALSE, path |-> <<"not run">>]

\* no function of tools.py has been called in the request
NoRead == <<"no read">>

\* no request yet
ApiIdle ==
    api = [pc |-> "idle", n |-> 0, handler |-> "none", path |-> None, links |-> {},
           url |-> NoUrl, repo |-> << >>, safe |-> NotRun, rel |-> None,
           read |-> NoRead, status |-> 0]

\* one step of get_repo after the call itself
GetRepoStep(c) ==
    \/ Check(c)
    \/ Open(c)
    \/ Remote(c)
    \/ Fetch(c)
    \/ RmRecover(c)
    \/ RmStale(c)
    \/ CloneStart(c)
    \/ CloneEnd(c)
    \/ Cleanup(c)
    \/ Raise(c)
    \/ Return(c)


(***************************************************************************)
(* Bisect job: git_tasks.py, run_bisect_task, and the sandboxed executor:  *)
(* sandboxing.py, run_sandboxed_bisect.  One worker runs the jobs one      *)
(* after the other; its get_repo call is the cache manager's, as caller    *)
(* Worker.                                                                 *)
(***************************************************************************)
MaxJobs == 2

Jobs   == 1..MaxJobs
Worker == "c1"

\* a removal that is not forced
RemoveUnforced == FALSE

\* container.remove(force=True), line 123
RemoveForce == TRUE

\* the daemon removes a running container only when forced (it kills it
\* with SIGKILL, which no process can ignore)
RemoveAllowed(state, force) == force \/ state # "running"

\* the dict run_bisect_task returns, git_tasks.py lines 48-65; a key the
\* dict does not have is None
NoResult == [status |-> "none", bad_commit |-> None, logs |-> None, error |-> "none"]

Completed(commit, logs) ==
    [status |-> "completed", bad_commit |-> commit, logs |-> logs, error |-> "none"]
Failed(logs) ==
    [status |-> "failed", bad_commit |-> None, logs |-> logs,
     error |-> "Bisect failed or timed out"]
Errored(e) == [status |-> "error", bad_commit |-> None, logs |-> None, error |-> e]

\* sandboxing.py lines 128-136, _parse_bisect_result: the first run of
\* characters a-f0-9 that " is the first bad commit" follows.  A log is a
\* sequence of symbols: blank, newline, words of a-f0-9 only (HexWords),
\* other words, and the phrase.
Phrase   == "is the first bad commit"
HexWords == {"abc1234", "0f"}

\* a parse that finds nothing in any log
ParseNothing(logs) == <<"Not found">>

\* a parse that takes the first run of a-f0-9 anywhere in the log
ParseFirstHex(logs) ==
    IF \A j \in 1..Len(logs) : logs[j] \notin HexWords THEN <<"Not found">>
    ELSE LET i == CHOOSE k \in 1..Len(logs) :
                    logs[k] \in HexWords /\ \A n \in 1..(k - 1) : logs[n] \notin HexWords
         IN  <<logs[i]>>

parse_bisect_result(logs) ==
    LET ends == {j \in 1..(Len(logs) - 2) :
                    logs[j] \in HexWords /\ logs[j + 1] = " " /\ logs[j + 2] = Phrase}
    IN  IF ends = {} THEN <<"Not found">>
        ELSE LET j == CHOOSE e \in ends : \A f \in ends : e <= f
                 i == CHOOSE k \in 1..j :
                        /\ \A n \in k..j : logs[n] \in HexWords
                        /\ (k > 1 => logs[k - 1] \notin HexWords)
             IN  SubSeq(logs, i, j)

\* what a container may have printed
LogAbc     == <<"running", " ", "npm", "\n", "abc1234", " ", Phrase, "\n",
                "commit", " ", "abc1234", "\n">>
LogStreams == { << >>, <<"running", " ", "npm", "\n">>, LogAbc }

\* what run_sandboxed_bisect returns; NoSres before it has returned
NoSres == [success |-> FALSE, exit_code |-> -1, error |-> "none",
           logs |-> None, found_commit |-> None]

\* lines 113-118: {"success": False, "error": str(e)}
SandboxError(e) == [success |-> FALSE, exit_code |-> -1, error |-> e,
                    logs |-> None, found_commit |-> None]

\* lines 102-111
SandboxResult(code, logs) ==
    [success |-> (code = 0), exit_code |-> code, error |-> "none",
     logs |-> logs, found_commit |-> parse_bisect_result(logs)]

\* a container run with the network of the host
ContainerOptionsOpen ==
    [network_disabled |-> FALSE, mem_limit |-> "512m", cpu_period |-> 100000, cpu_quota |-> 50000]

\* sandboxing.py lines 93-97: the keyword arguments of containers.run that
\* limit the container
ContainerOptions ==
    [network_disabled |-> TRUE, mem_limit |-> "512m", cpu_period |-> 100000, cpu_quota |-> 50000]

\* the options the daemon gives a container when none are asked for
DefaultOptions ==
    [network_disabled |-> FALSE, mem_limit |-> "none", cpu_period |-> 0, cpu_quota |-> 0]

JobIdle ==
    /\ jstate = [j \in Jobs |-> "PENDING"]
    /\ jresult = [j \in Jobs |-> NoResult]
    /\ jpc = "idle"
    /\ jcur = 0
    /\ jurl = NoUrl
    /\ cont = [j \in Jobs |-> "none"]
    /\ cvar = 0
    /\ sres = NoSres
    /\ dfault = FALSE
    /\ clogs = [j \in Jobs |-> << >>]
    /\ image = FALSE
    /\ copts = [j \in Jobs |-> DefaultOptions]

\* a task that ends by letting its exception escape: no result is stored
FinishLost(state, result) ==
    /\ jstate' = jstate
    /\ jresult' = jresult
    /\ jpc' = "idle"

\* the task ends: its return value is the job's result
Finish(state, result) ==
    /\ jstate' = [jstate EXCEPT ![jcur] = state]
    /\ jresult' = [jresult EXCEPT ![jcur] = result]
    /\ jpc' = "idle"

Init == CacheInit /\ JobIdle /\ FnIdle /\ ApiIdle

\* callers of get_repo (the request handlers of main.py), interleaved
Next ==
    \/ \E c \in Callers, u \in CacheUrls : Call(c, u) /\ UNCHANGED <<jobVars, fnVars, api>>
    \/ \E c \in Callers : Check(c) /\ UNCHANGED <<jobVars, fnVars, api>>
    \/ \E c \in Callers : Open(c) /\ UNCHANGED <<jobVars, fnVars, api>>
    \/ \E c \in Callers : Remote(c) /\ UNCHANGED <<jobVars, fnVars, api>>
    \/ \E c \in Callers : Fetch(c) /\ UNCHANGED <<jobVars, fnVars, api>>
    \/ \E c \in Callers : RmRecover(c) /\ UNCHANGED <<jobVars, fnVars, api>>
    \/ \E c \in Callers : RmStale(c) /\ UNCHANGED <<jobVars, fnVars, api>>
    \/ \E c \in Callers : CloneStart(c) /\ UNCHANGED <<jobVars, fnVars, api>>
    \/ \E c \in Callers : CloneEnd(c) /\ UNCHANGED <<jobVars, fnVars, api>>
    \/ \E c \in Callers : Cleanup(c) /\ UNCHANGED <<jobVars, fnVars, api>>
    \/ \E c \in Callers : Raise(c) /\ UNCHANGED <<jobVars, fnVars, api>>
    \/ \E c \in Callers : Return(c) /\ UNCHANGED <<jobVars, fnVars, api>>

Spec == Init /\ [][Next]_vars

\* every git and file-system operation a caller has started ends: a call
\* that can take its next step takes it
Progress == \A c \in Callers : WF_vars(GetRepoStep(c) /\ UNCHANGED <<jobVars, fnVars, api>>)

SpecLive == Init /\ [][Next]_vars /\ Progress

\* a task that starts without publishing the cloning phase
TaskStartSilent ==
    /\ jpc = "idle"
    /\ jcur < MaxJobs
    /\ \E u \in CacheUrls : jurl' = u
    /\ jcur' = jcur + 1
    /\ jpc' = "calling"
    /\ UNCHANGED <<jstate, jresult, cont, cvar, sres, dfault, clogs, image, copts, cacheVars>>

\* git_tasks.py lines 26-31: the worker takes the next job and publishes
\* the cloning phase
TaskStart ==
    /\ jpc = "idle"
    /\ jcur < MaxJobs
    /\ \E u \in CacheUrls : jurl' = u
    /\ jcur' = jcur + 1
    /\ jstate' = [jstate EXCEPT ![jcur + 1] = "cloning"]
    /\ jpc' = "calling"
    /\ UNCHANGED <<jresult, cont, cvar, sres, dfault, clogs, image, copts, cacheVars>>

\* git_tasks.py line 32: repo_manager.get_repo(repo_url) is entered
TaskCallRepo ==
    /\ jpc = "calling"
    /\ CallBody(Worker, jurl)
    /\ jpc' = "in_get_repo"
    /\ UNCHANGED <<jstate, jresult, jcur, jurl, cont, cvar, sres, dfault, clogs, image, copts>>

\* get_repo runs
TaskRepoStep ==
    /\ jpc = "in_get_repo"
    /\ GetRepoStep(Worker)
    /\ UNCHANGED jobVars

\* a task that reports a failure of get_repo as a failed bisection
TaskRepoFailedAsFailed ==
    /\ jpc = "in_get_repo"
    /\ pc[Worker] = "raised"
    /\ Finish("FAILED", Failed(<<ret[Worker].kind>>))
    /\ UNCHANGED <<jcur, jurl, cont, cvar, sres, dfault, clogs, image, copts, cacheVars>>

\* git_tasks.py lines 60-65: get_repo raised
TaskRepoFailed ==
    /\ jpc = "in_get_repo"
    /\ pc[Worker] = "raised"
    /\ Finish("ERRORED", Errored(ret[Worker].kind))
    /\ UNCHANGED <<jcur, jurl, cont, cvar, sres, dfault, clogs, image, copts, cacheVars>>

\* a task that enters the sandbox without publishing the bisecting phase
TaskBisectingSilent ==
    /\ jpc = "in_get_repo"
    /\ pc[Worker] = "returned"
    /\ jpc' = "docker_client"
    /\ sres' = NoSres
    /\ UNCHANGED <<jstate, jresult, jcur, jurl, cont, cvar, dfault, clogs, image, copts, cacheVars>>

\* git_tasks.py lines 35-38: get_repo returned; the bisecting phase is
\* published and run_sandboxed_bisect is entered
TaskBisecting ==
    /\ jpc = "in_get_repo"
    /\ pc[Worker] = "returned"
    /\ jstate' = [jstate EXCEPT ![jcur] = "bisecting"]
    /\ jpc' = "docker_client"
    /\ sres' = NoSres
    /\ UNCHANGED <<jresult, jcur, jurl, cont, cvar, dfault, clogs, image, copts, cacheVars>>

\* what get_docker_client raises: ImportError when the library is absent
\* (line 21), RuntimeError when the daemon does not answer (line 29)
DockerErrors == {"docker library is not installed", "Docker is not running"}

\* an executor that calls get_docker_client inside its try
DockerClientInsideTry ==
    /\ jpc = "docker_client"
    /\ \/ /\ jpc' = "image_get"
          /\ UNCHANGED <<jstate, jresult, sres>>
       \/ /\ \E e \in DockerErrors : sres' = SandboxError(e)
          /\ jpc' = "finally"
          /\ UNCHANGED <<jstate, jresult>>
    /\ UNCHANGED <<jcur, jurl, cont, cvar, dfault, clogs, image, copts, cacheVars>>

\* sandboxing.py lines 16-29 and 44: get_docker_client() is called before
\* the try of line 74, so what it raises leaves run_sandboxed_bisect and
\* is caught by the task (git_tasks.py lines 60-65)
DockerClient ==
    /\ jpc = "docker_client"
    /\ \/ /\ jpc' = "image_get"
          /\ UNCHANGED <<jstate, jresult>>
       \/ \E e \in DockerErrors : Finish("ERRORED", Errored(e))
    /\ UNCHANGED <<jcur, jurl, cont, cvar, sres, dfault, clogs, image, copts, cacheVars>>

\* an exception inside the try of line 74 (the time limit's
\* SoftTimeLimitExceeded is one): lines 113-118, then the finally
Except(e) == sres' = SandboxError(e) /\ jpc' = "finally"

\* sandboxing.py lines 76-80: images.get finds the image, or raises
\* ImageNotFound, or fails
ImageGet ==
    /\ jpc = "image_get"
    /\ \/ image /\ jpc' = "create" /\ UNCHANGED sres
       \/ ~image /\ jpc' = "pull" /\ UNCHANGED sres
       \/ Except("image")
    /\ UNCHANGED <<jstate, jresult, jcur, jurl, cont, cvar, dfault, clogs, image, copts, cacheVars>>

\* sandboxing.py line 80: images.pull
ImagePull ==
    /\ jpc = "pull"
    /\ \/ jpc' = "create" /\ image' = TRUE /\ UNCHANGED sres
       \/ Except("image") /\ UNCHANGED image
    /\ UNCHANGED <<jstate, jresult, jcur, jurl, cont, cvar, dfault, clogs, copts, cacheVars>>

\* sandboxing.py lines 85-98, containers.run(detach=True): the daemon
\* creates a container ...
RunCreate ==
    /\ jpc = "create"
    /\ \/ /\ cont' = [cont EXCEPT ![jcur] = "created"]
          /\ copts' = [copts EXCEPT ![jcur] = ContainerOptions]
          /\ jpc' = "start"
          /\ UNCHANGED sres
       \/ Except("start") /\ UNCHANGED <<cont, copts>>
    /\ UNCHANGED <<jstate, jresult, jcur, jurl, cvar, dfault, clogs, image, cacheVars>>

\* ... and starts it; only then is `container` assigned.  What the
\* container prints is chosen here.
RunStart ==
    /\ jpc = "start"
    /\ \/ /\ cont' = [cont EXCEPT ![jcur] = "running"]
          /\ cvar' = jcur
          /\ jpc' = "wait"
          /\ \E l \in LogStreams : clogs' = [clogs EXCEPT ![jcur] = l]
          /\ UNCHANGED sres
       \/ Except("start") /\ UNCHANGED <<cont, cvar, clogs>>
    /\ UNCHANGED <<jstate, jresult, jcur, jurl, dfault, image, copts, cacheVars>>

\* the bisect inside the container ends, with exit status 0 or not
ContainerExit ==
    /\ jcur > 0
    /\ cont[jcur] = "running"
    /\ \E code \in {"exited0", "exited1"} : cont' = [cont EXCEPT ![jcur] = code]
    /\ UNCHANGED <<jstate, jresult, jpc, jcur, jurl, cvar, sres, dfault, clogs, image, copts, cacheVars>>

\* sandboxing.py line 101: container.wait(timeout=300)
Wait ==
    /\ jpc = "wait"
    /\ \/ /\ cont[jcur] \in {"exited0", "exited1"}
          /\ jpc' = "logs"
          /\ UNCHANGED sres
       \/ \* the container is still running when the timeout expires
          /\ cont[jcur] = "running"
          /\ Except("timeout")
       \/ Except("wait")
    /\ UNCHANGED <<jstate, jresult, jcur, jurl, cont, cvar, dfault, clogs, image, copts, cacheVars>>

\* sandboxing.py lines 102-111
Logs ==
    /\ jpc = "logs"
    /\ \/ /\ sres' = SandboxResult(IF cont[jcur] = "exited0" THEN 0 ELSE 1, clogs[jcur])
          /\ jpc' = "finally"
       \/ Except("logs")
    /\ UNCHANGED <<jstate, jresult, jcur, jurl, cont, cvar, dfault, clogs, image, copts, cacheVars>>

\* sandboxing.py lines 119-125: the removal, whose failure is ignored
Finally ==
    /\ jpc = "finally"
    /\ jpc' = "result"
    /\ cvar' = 0
    /\ \/ /\ cvar = 0
          /\ UNCHANGED <<cont, dfault>>
       \/ /\ cvar # 0
          /\ RemoveAllowed(cont[cvar], RemoveForce)
          /\ cont' = [cont EXCEPT ![cvar] = "removed"]
          /\ UNCHANGED dfault
       \/ \* the daemon refuses: the container is running and not forced
          /\ cvar # 0
          /\ ~RemoveAllowed(cont[cvar], RemoveForce)
          /\ UNCHANGED <<cont, dfault>>
       \/ \* the removal call fails, or is interrupted
          /\ cvar # 0
          /\ dfault' = TRUE
          /\ UNCHANGED cont
    /\ UNCHANGED <<jstate, jresult, jcur, jurl, sres, clogs, image, copts, cacheVars>>

\* git_tasks.py lines 47-58; line 57 is
\* result.get('logs', result.get('error', 'Unknown error'))
TaskResult ==
    /\ jpc = "result"
    /\ IF sres.success
       THEN Finish("COMPLETED", Completed(sres.found_commit, sres.logs))
       ELSE Finish("FAILED", Failed(IF sres.logs # None THEN sres.logs ELSE <<sres.error>>))
    /\ UNCHANGED <<jcur, jurl, cont, cvar, sres, dfault, clogs, image, copts, cacheVars>>

\* the job starts with the cache of one repository, in any state
InitJob ==
    /\ Init
    /\ \A u \in {UrlB, UrlBad} : dir[md5(u)] = "absent"

JobNext ==
    \/ TaskStart /\ UNCHANGED <<fnVars, api>>
    \/ TaskCallRepo /\ UNCHANGED <<fnVars, api>>
    \/ TaskRepoStep /\ UNCHANGED <<fnVars, api>>
    \/ TaskRepoFailed /\ UNCHANGED <<fnVars, api>>
    \/ TaskBisecting /\ UNCHANGED <<fnVars, api>>
    \/ DockerClient /\ UNCHANGED <<fnVars, api>>
    \/ ImageGet /\ UNCHANGED <<fnVars, api>>
    \/ ImagePull /\ UNCHANGED <<fnVars, api>>
    \/ RunCreate /\ UNCHANGED <<fnVars, api>>
    \/ RunStart /\ UNCHANGED <<fnVars, api>>
    \/ ContainerExit /\ UNCHANGED <<fnVars, api>>
    \/ Wait /\ UNCHANGED <<fnVars, api>>
    \/ Logs /\ UNCHANGED <<fnVars, api>>
    \/ Finally /\ UNCHANGED <<fnVars, api>>
    \/ TaskResult /\ UNCHANGED <<fnVars, api>>

SpecJob == InitJob /\ [][JobNext]_vars

(***************************************************************************)
(* Claims about the repository cache                                       *)
(***************************************************************************)
Finished(c) == pc[c] \in {"returned", "raised"}

\* the callers other than c are not inside a call on c's directory
Alone(c) == \A d \in Callers \ {c} : Finished(d) \/ pc[d] = "idle" \/ Key(d) # Key(c)

\* C1: two get_repo calls for the same valid URL, one per caller, overlapping
\* or not, with no directory for the URL before and no failure of the remote
\* or of the file system: once both have ended, one clone was made in total,
\* both returned the same path and the directory is a complete clone.
C1_OneCloneForTwoFirstCalls ==
    \A u \in {UrlA, UrlB} :
        ( /\ \A c \in Callers : url[c] = u /\ Finished(c)
          /\ calls = Cardinality(Callers)
          /\ dir0[md5(u)] = "absent"
          /\ ~faulted )
        => /\ clones["c1"] + clones["c2"] = 1
           /\ \A c \in Callers : ret[c] = Returned(RepoPath(u))
           /\ dir[md5(u)] = "valid"

InFetch(c)    == pc[c] = "fetching"
InClone(c)    == pc[c] = "cloning"
InRecovery(c) == pc[c] = "rm_recover" \/ (pc[c] \in {"clone", "cloning", "cleanup"} /\ fetches[c] > 0)
Mutating(c)   == InFetch(c) \/ InClone(c) \/ InRecovery(c)

\* C2: at most one caller at a time is inside a fetch, a clone or a
\* delete-and-reclone of the same cache directory.
C2_MutationsSerialized ==
    \A c, d \in Callers :
        (c # d /\ Mutating(c) /\ Mutating(d)) => Key(c) # Key(d)

\* C3: when a get_repo call for a valid URL has ended (returned or raised)
\* with no other call on the directory under way and no failure of the remote
\* or of the file system, the directory is absent or a complete clone.
C3_AbsentOrValidAfterCall ==
    \A c \in Callers :
        (Finished(c) /\ is_safe_git_url(url[c]) /\ Alone(c) /\ ~faulted)
        => dir[Key(c)] \in {"absent", "valid"}

\* C4: at the step at which get_repo returns a path the directory at that
\* path is a complete clone, also when calls for the same URL overlap (here
\* with no failure of the remote or of the file system).
C4_ReturnedPathIsValid ==
    [][\A c \in Callers :
          (pc[c] = "return" /\ pc'[c] = "returned" /\ ~faulted')
          => dir'[Key(c)] = "valid"]_vars

\* caller c has made the only call so far, and it has ended
OnlyCall(c) == Finished(c) /\ calls = 1 /\ \A d \in Callers \ {c} : pc[d] = "idle"

\* C11: a get_repo call, the only one, that finds a directory with a .git
\* whose refresh fails (Repo() does not open it, or the fetch fails), with a
\* healthy remote and file system: the directory is replaced by a fresh
\* clone and the call returns its path.
C11_FailedRefreshIsRecloned ==
    \A c \in Callers :
        ( /\ OnlyCall(c)
          /\ is_safe_git_url(url[c])
          /\ dir0[Key(c)] \in {"badmeta", "badhist"}
          /\ ~faulted )
        => /\ ret[c] = Returned(RepoPath(url[c]))
           /\ dir[Key(c)] = "valid"
           /\ clones[c] = 1

\* C12: at the step at which the error of a failed clone attempt reaches
\* the caller of get_repo, the target directory does not exist, and what the
\* caller gets is the error, no path.
C12_NoDirectoryAfterFailedClone ==
    [][\A c \in Callers :
          (pc[c] = "raise" /\ pc'[c] = "raised")
          => /\ dir'[Key(c)] = "absent"
             /\ ret'[c] = Raised("RuntimeError")]_vars

\* C13: get_repo called twice in a row with the same valid URL by the one
\* caller there is, the first call returning a path, remote and file system
\* healthy: the second call returns the same path and makes no clone, only
\* one fetch.
C13_SecondCallSamePathNoClone ==
    \A c \in Callers :
        ( /\ Finished(c)
          /\ calls = 2
          /\ \A d \in Callers \ {c} : pc[d] = "idle"
          /\ prev[c].url = url[c]
          /\ prev[c].ret.kind = "path"
          /\ ~faulted )
        => /\ ret[c] = prev[c].ret
           /\ clones[c] = 0
           /\ fetches[c] = 1

C13_Witness ==
    /\ pc["c1"] = "returned"
    /\ pc["c2"] = "idle"
    /\ calls = 2
    /\ prev["c1"] = [url |-> UrlA, ret |-> Returned(RepoPath(UrlA))]
    /\ ret["c1"] = Returned(RepoPath(UrlA))
    /\ dir0[md5(UrlA)] = "absent"
    /\ clones["c1"] = 0
    /\ ~faulted

\* C20: a caller whose URL fails is_safe_git_url has got ValueError without
\* taking one step into the cache: no lookup, no clone, no fetch, and the
\* directory of that URL and its origin are as they were.
C20_UnsafeUrlTouchesNothing ==
    \A c \in Callers :
        (url[c] # NoUrl /\ ~is_safe_git_url(url[c]))
        => /\ pc[c] = "raised"
           /\ ret[c] = Raised("ValueError")
           /\ clones[c] = 0 /\ fetches[c] = 0
           /\ dir[Key(c)] = dir0[Key(c)]
           /\ origin[Key(c)] = NoUrl

C20_Witness ==
    /\ url["c1"] = UrlBad
    /\ ret["c1"] = Raised("ValueError")
    /\ dir[md5(UrlBad)] = "nogit"
    /\ pc["c2"] = "returned"

\* the states of a directory that is a clone with an origin remote
CloneStates == {"valid", "badhist", "partial"}

\* C25: a get_repo call makes at most one fetch attempt and at most one
\* clone attempt; a fetch that ended leads to the return or to the one
\* delete-and-reclone, a failed clone leads through the cleanup to the error
\* and to nothing else; and every call that has started ends.
C25_OneFetchOneCloneThenEnd ==
    /\ [](\A c \in Callers : fetches[c] <= 1 /\ clones[c] <= 1)
    /\ [][\A c \in Callers :
            /\ pc[c] = "fetching" => pc'[c] \in {"fetching", "return", "rm_recover"}
            /\ pc[c] = "rm_recover" => pc'[c] \in {"rm_recover", "clone", "raised"}
            /\ pc[c] = "cloning" => pc'[c] \in {"cloning", "return", "cleanup"}
            /\ pc[c] = "cleanup" => pc'[c] \in {"cleanup", "raise"}
            /\ pc[c] = "raise" => pc'[c] \in {"raise", "raised"}]_vars
    /\ \A c \in Callers : (pc[c] = "check") ~> Finished(c)

C25_Witness ==
    /\ pc["c1"] = "raised" /\ url["c1"] = UrlA
    /\ fetches["c1"] = 1 /\ clones["c1"] = 1
    /\ dir0[md5(UrlA)] = "badhist"
    /\ pc["c2"] = "idle"

\* C27: a refresh fetches from the requested URL: while a call is at its
\* fetch, and when it has returned the path of a clone it refreshed, the
\* origin remote of the clone in the directory is the requested URL, also
\* when the directory had another origin before.
C27_OriginIsRequestedUrl ==
    \A c \in Callers :
        ( /\ \/ pc[c] \in {"fetching", "return"}
             \/ pc[c] = "returned" /\ ret[c].kind = "path"
          /\ fetches[c] + clones[c] <= 1
          /\ dir[Key(c)] \in CloneStates )
        => origin[Key(c)] = url[c]

C27_Witness ==
    /\ pc["c1"] = "returned" /\ url["c1"] = UrlA
    /\ ret["c1"] = Returned(RepoPath(UrlA))
    /\ fetches["c1"] = 1 /\ clones["c1"] = 0
    /\ origin0[md5(UrlA)] = UrlB
    /\ origin[md5(UrlA)] = UrlA
    /\ dir[md5(UrlA)] = "valid"

\* C29: a step changes the directory of a key, or its origin, only when it
\* is a step of a get_repo call for the URL of that key; the directories of
\* all other URLs stay as they are.
C29_OnlyOwnDirectoryTouched ==
    [][\A k \in Keys :
          (dir'[k] # dir[k] \/ origin'[k] # origin[k])
          => \E c \in Callers :
                /\ pc[c] \notin {"idle", "returned", "raised"}
                /\ pc'[c] # pc[c]
                /\ k = Key(c)]_vars

C29_Witness ==
    /\ pc["c1"] = "returned" /\ url["c1"] = UrlA
    /\ dir0[md5(UrlA)] = "nogit" /\ dir[md5(UrlA)] = "valid"
    /\ pc["c2"] = "raised" /\ url["c2"] = UrlB
    /\ dir0[md5(UrlB)] = "badhist" /\ dir[md5(UrlB)] = "absent"
    /\ dir0[md5(UrlBad)] = "nogit" /\ dir[md5(UrlBad)] = "nogit"

(***************************************************************************)
(* Claims about the bisect job and the sandbox                             *)
(***************************************************************************)
Terminal == {"COMPLETED", "FAILED", "ERRORED"}

Allowed(a, b) ==
    \/ a = b
    \/ a = "PENDING" /\ b = "cloning"
    \/ a = "cloning" /\ b \in {"bisecting"} \cup Terminal
    \/ a = "bisecting" /\ b \in Terminal

\* C5: a job's state moves only PENDING -> cloning -> bisecting -> terminal
\* (or from cloning or bisecting straight to a terminal state); it has a
\* result exactly when it is terminal, and once terminal neither its state
\* nor its result changes.
C5_JobStateOrder ==
    [][\A j \in Jobs :
          /\ Allowed(jstate[j], jstate'[j])
          /\ (jstate'[j] \in Terminal) <=> (jresult'[j] # NoResult)
          /\ jstate[j] \in Terminal => (jstate'[j] = jstate[j] /\ jresult'[j] = jresult[j])]_vars

C5_Witness ==
    /\ jstate[1] \in Terminal
    /\ jresult[1].status = "completed"
    /\ jstate[2] = "bisecting"

\* run_sandboxed_bisect has exited for job j
SandboxExited(j) == j < jcur \/ (j = jcur /\ jpc \in {"result", "idle"})

\* C6: when run_sandboxed_bisect has exited, on whatever path, every
\* container it created is removed (granted that no removal call failed).
C6_ContainersRemovedAtExit ==
    \A j \in Jobs :
        (SandboxExited(j) /\ ~dfault) => cont[j] \in {"none", "removed"}

\* C7: when the wait timed out with the container still running, the call
\* returns success false with a timeout as its error, and the container is
\* removed by force (granted that the removal call itself did not fail).
C7_TimeoutFailsAndKills ==
    (jpc = "result" /\ sres.error = "timeout")
    => /\ sres.success = FALSE
       /\ ~dfault => cont[jcur] = "removed"

C7_Witness == jpc = "result" /\ sres.error = "timeout" /\ cont[jcur] = "removed"

\* C14: when run_sandboxed_bisect has reported success, the task ends the
\* job as COMPLETED with the commit found in the container's logs and those
\* logs; for the log stream LogAbc, which holds "abc1234 is the first bad
\* commit", the commit is abc1234.
C14_SuccessCompletesWithCommit ==
    [][(jpc = "result" /\ sres.success) =>
          /\ jstate'[jcur] = "COMPLETED"
          /\ jresult'[jcur] = Completed(parse_bisect_result(clogs[jcur]), clogs[jcur])
          /\ (clogs[jcur] = LogAbc => jresult'[jcur].bad_commit = <<"abc1234">>)]_vars

C14_Witness ==
    /\ jstate[1] = "COMPLETED"
    /\ jresult[1] = Completed(<<"abc1234">>, LogAbc)
    /\ cont[1] = "removed"

\* C15: when the bisect run ended without success or timed out, the task
\* ends the job as FAILED and the result's logs are what the container
\* printed.
C15_NonSuccessFailsWithLogs ==
    [][(jpc = "result" /\ ~sres.success /\ sres.error \in {"none", "timeout"}) =>
          /\ jstate'[jcur] = "FAILED"
          /\ jresult'[jcur].logs = clogs[jcur]]_vars

\* C16: when the sandbox call itself failed (no Docker client, no image, or
\* the container not created or not started), the job ends as ERRORED.
C16_RuntimeFailureErrors ==
    [][/\ (jpc = "docker_client" /\ jpc' = "idle") => jstate'[jcur] = "ERRORED"
       /\ (jpc = "result" /\ sres.error \in {"image", "start"})
          => jstate'[jcur] = "ERRORED"]_vars

\* C17: when get_repo has raised inside a job, the next thing the task does
\* is end the job as ERRORED with the error's message; the sandbox is not
\* entered and no container exists for the job.
C17_RepoFailureErrorsJob ==
    [][(jpc = "in_get_repo" /\ pc[Worker] = "raised") =>
          /\ jstate'[jcur] = "ERRORED"
          /\ jresult'[jcur] = Errored(ret[Worker].kind)
          /\ jpc' = "idle"
          /\ cont'[jcur] = "none"
          /\ UNCHANGED <<sres, cvar, image>>]_vars

C17_Witness ==
    /\ jpc = "idle"
    /\ jstate[1] = "ERRORED" /\ jresult[1] = Errored("ValueError")
    /\ jstate[2] = "ERRORED" /\ jresult[2] = Errored("RuntimeError")
    /\ cont = [j \in Jobs |-> "none"]

\* the worker has ended job j
Ended(j) == j < jcur \/ (j = jcur /\ jpc = "idle")

StatusOf(state) ==
    CASE state = "COMPLETED" -> "completed"
      [] state = "FAILED" -> "failed"
      [] state = "ERRORED" -> "error"
      [] OTHER -> "none"

\* C18: every job the worker has ended is in a terminal state with the
\* result of that state, an error message when ERRORED and logs (or the
\* error's text) when FAILED; and a job becomes COMPLETED only from a
\* sandbox result with success true, so no failure of get_repo or of the
\* sandbox call is turned into a success or dropped.
C18_EveryOutcomeCaptured ==
    /\ [](\A j \in Jobs :
            Ended(j) =>
              /\ jstate[j] \in Terminal
              /\ jresult[j].status = StatusOf(jstate[j])
              /\ jstate[j] = "ERRORED" => jresult[j].error \notin {"none", ""}
              /\ jstate[j] = "FAILED" => jresult[j].logs # None)
    /\ [][\A j \in Jobs :
            (jstate'[j] # jstate[j] /\ jstate'[j] = "COMPLETED")
            => (j = jcur /\ jpc = "result" /\ sres.success /\ pc[Worker] = "returned")]_vars

C18_Witness ==
    /\ jpc = "idle" /\ jcur = 2
    /\ jstate[1] = "FAILED" /\ jresult[1].logs = <<"start">>
    /\ jstate[2] = "ERRORED" /\ jresult[2].error \in DockerErrors

\* C19: run_sandboxed_bisect obtains the Docker client before anything
\* else; when that fails the call raises one of get_docker_client's errors
\* (the job ends ERRORED with it) instead of returning a result, and no
\* image has been pulled and no container created by the call.
C19_DockerUnreachableRaisesFirst ==
    /\ [](jpc = "docker_client" => (cont[jcur] = "none" /\ cvar = 0 /\ sres = NoSres))
    /\ [][(jpc = "docker_client" /\ jpc' # "image_get") =>
            /\ jpc' = "idle"
            /\ sres' = NoSres
            /\ jstate'[jcur] = "ERRORED"
            /\ jresult'[jcur].error \in DockerErrors
            /\ UNCHANGED <<cont, cvar, image>>]_vars

C19_Witness ==
    /\ jstate[1] = "ERRORED"
    /\ jresult[1] = Errored("docker library is not installed")
    /\ cont[1] = "none"
    /\ image = FALSE
    /\ jstate[2] = "bisecting"

\* the positions of the worker inside run_sandboxed_bisect
InSandbox ==
    jpc \in {"docker_client", "image_get", "pull", "create", "start", "wait", "logs",
             "finally", "result"}

\* C22: a container comes into being only at the containers.run of the
\* invocation under way, as a new container with the network disabled, a
\* memory limit and a CPU quota; the container an invocation starts and
\* holds is the one it created, never one of an earlier invocation; and the
\* options of a container never change.
C22_FreshHardenedContainer ==
    /\ [](\A j \in Jobs :
            cont[j] # "none" =>
              /\ copts[j].network_disabled
              /\ copts[j].mem_limit # "none"
              /\ copts[j].cpu_quota > 0)
    /\ [][\A j \in Jobs :
            /\ (cont[j] = "none" /\ cont'[j] # "none")
               => (j = jcur /\ jpc = "create" /\ cont'[j] = "created")
            /\ cont[j] # "none" => copts'[j] = copts[j]
            /\ (cvar' = j /\ cvar # j)
               => (j = jcur /\ jpc = "start" /\ cont[j] = "created" /\ cont'[j] = "running")]_vars

C22_Witness ==
    /\ jcur = 2 /\ jpc = "wait"
    /\ cont[1] = "removed" /\ cont[2] = "running" /\ cvar = 2
    /\ copts[2] = ContainerOptions

\* C26: while get_repo runs the published phase is cloning, and it was
\* published before get_repo was entered; the bisecting phase is published
\* in a step taken with get_repo returned and no container yet; and while
\* the worker is inside the sandbox call, or a container of the job exists,
\* the published phase is bisecting.
C26_PhaseMatchesWork ==
    /\ [](jpc \in {"calling", "in_get_repo"} => jstate[jcur] = "cloning")
    /\ [](InSandbox =>
            /\ jstate[jcur] = "bisecting"
            /\ pc[Worker] = "returned" /\ ret[Worker] = Returned(RepoPath(jurl)))
    /\ [](\A j \in Jobs : cont[j] # "none" => jstate[j] \notin {"PENDING", "cloning"})
    /\ [][\A j \in Jobs :
            (jstate'[j] = "bisecting" /\ jstate[j] # "bisecting")
            => /\ j = jcur /\ jstate[j] = "cloning"
               /\ pc[Worker] = "returned"
               /\ cont[j] = "none" /\ jpc' = "docker_client"]_vars

C26_Witness ==
    /\ jcur = 2 /\ jpc = "wait"
    /\ jstate[1] = "ERRORED" /\ jresult[1] = Errored("RuntimeError")
    /\ jstate[2] = "bisecting" /\ cont[2] = "running"

(***************************************************************************)
(* Sandboxed executor, the command line: sandboxing.py lines 50-71, 85-89  *)
(*                                                                         *)
(* Shell text is a sequence of symbols: the characters space, newline,     *)
(* ";", "'", '"', "\", "$", "#", the operator "||", and words made of      *)
(* characters shlex.quote takes for safe.                                  *)
(***************************************************************************)
SQ == "'"
DQ == "\""
BS == "\\"
NL == "\n"
SP == " "
\* the indentation of a line of the script, a run of blanks
IND == SP

\* shlex's _find_unsafe, [^\w@%+=:,./-]: the symbols that make quote() quote
Unsafe == {SP, NL, ";", SQ, DQ, BS, "$", "#", "||"}

\* str.replace("'", "'\"'\"'"), computed half by half
RECURSIVE EscapeQuotes(_)
EscapeQuotes(s) ==
    IF s = << >> THEN << >>
    ELSE IF Len(s) = 1 THEN (IF s[1] = SQ THEN <<SQ, DQ, SQ, DQ, SQ>> ELSE s)
    ELSE LET m == Len(s) \div 2
         IN  EscapeQuotes(SubSeq(s, 1, m)) \o EscapeQuotes(SubSeq(s, m + 1, Len(s)))

\* text with no quoting at all
Unquoted(s) == s

\* shlex.quote
quote(s) ==
    IF s = << >> THEN <<SQ, SQ>>
    ELSE IF \A k \in 1..Len(s) : s[k] \notin Unsafe THEN s
    ELSE <<SQ>> \o EscapeQuotes(s) \o <<SQ>>

\* what "$" stands for once a shell expands it
Expansion == "<expansion>"

\* the state of a scan: quoting mode, the word and the command under way,
\* the commands read so far
ScanStart == [q |-> "n", w |-> << >>, inw |-> FALSE, argv |-> << >>, cmds |-> << >>,
              skip |-> FALSE, esc |-> FALSE]

EndWord(st) ==
    IF st.inw THEN [st EXCEPT !.argv = Append(@, st.w), !.w = << >>, !.inw = FALSE] ELSE st

EndCommand(st) ==
    LET t == EndWord(st)
    IN  IF t.argv = << >> THEN t ELSE [t EXCEPT !.cmds = Append(@, t.argv), !.argv = << >>]

Put(st, c) == [st EXCEPT !.w = Append(@, c), !.inw = TRUE]

\* one symbol c, followed by nxt, read by a POSIX shell (sh = TRUE) or by
\* shlex.split in POSIX mode (sh = FALSE), which knows quotes and escapes
\* but no operators, comments or expansions
ScanStep(st, c, nxt, sh) ==
    IF st.skip THEN (IF c = NL THEN [EndCommand(st) EXCEPT !.skip = FALSE] ELSE st)
    ELSE IF st.esc THEN [Put(st, c) EXCEPT !.esc = FALSE]
    ELSE IF st.q = "s" THEN (IF c = SQ THEN [st EXCEPT !.q = "n"] ELSE Put(st, c))
    ELSE IF st.q = "d" THEN
        (IF c = DQ THEN [st EXCEPT !.q = "n"]
         ELSE IF c = BS /\ nxt \in ({DQ, BS} \cup (IF sh THEN {"$", NL} ELSE {}))
              THEN [st EXCEPT !.esc = TRUE]
         ELSE IF c = "$" /\ sh THEN Put(st, Expansion)
         ELSE Put(st, c))
    ELSE IF c = SP THEN EndWord(st)
    ELSE IF c = NL THEN (IF sh THEN EndCommand(st) ELSE EndWord(st))
    ELSE IF c = SQ THEN [st EXCEPT !.q = "s", !.inw = TRUE]
    ELSE IF c = DQ THEN [st EXCEPT !.q = "d", !.inw = TRUE]
    ELSE IF c = BS THEN [st EXCEPT !.esc = TRUE, !.inw = TRUE]
    ELSE IF sh /\ c \in {";", "||"} THEN EndCommand(st)
    ELSE IF sh /\ c = "#" /\ ~st.inw THEN [st EXCEPT !.skip = TRUE]
    ELSE IF sh /\ c = "$" THEN Put(st, Expansion)
    ELSE Put(st, c)

\* the scan of s[lo..hi] from state st, symbol by symbol and left to right;
\* the range is halved only to bound the depth of the evaluation (the test
\* on t.q makes TLC compute the left half before the right one)
RECURSIVE ScanRange(_, _, _, _, _)
ScanRange(s, lo, hi, st, sh) ==
    IF lo > hi THEN st
    ELSE IF lo = hi THEN ScanStep(st, s[lo], IF lo < Len(s) THEN s[lo + 1] ELSE "", sh)
    ELSE LET m == (lo + hi) \div 2
             t == ScanRange(s, lo, m, st, sh)
         IN  IF t.q = "" THEN t ELSE ScanRange(s, m + 1, hi, t, sh)

Scan(s, sh) == EndCommand(ScanRange(s, 1, Len(s), ScanStart, sh)).cmds

\* the simple commands a POSIX shell runs for a script, each a list of words
ShCommands(s) == Scan(s, TRUE)

\* docker's split_command, shlex.split(command): one list of words
shlex_split(s) ==
    LET r == Scan(s, FALSE)
    IN  IF r = << >> THEN << >> ELSE r[1]

\* sandboxing.py lines 57-71: the f-string, with the commits and the quoted
\* command put in as they are
bisect_script(test_command, bad_commit, good_commit) ==
    <<NL, IND, "git", SP, "config", SP, "--global", SP, "--add", SP, "safe.directory", SP, "/app",
      NL, IND, "cd", SP, "/app",
      NL, IND,
      NL, IND, "#", SP, "Reset", SP, "any", SP, "potential", SP, "mess",
      NL, IND, "git", SP, "bisect", SP, "reset", SP, "||", SP, "true",
      NL, IND,
      NL, IND, "#", SP, "Start", SP, "bisect",
      NL, IND, "git", SP, "bisect", SP, "start",
      NL, IND, "git", SP, "bisect", SP, "bad", SP>> \o bad_commit \o
    <<NL, IND, "git", SP, "bisect", SP, "good", SP>> \o good_commit \o
    <<NL, IND,
      NL, IND, "#", SP, "Run", SP, "the", SP, "automated", SP, "bisect", SP,
               "using", SP, "the", SP, "SAFE,", SP, "QUOTED", SP, "command",
      NL, IND, "git", SP, "bisect", SP, "run", SP, "/bin/sh", SP, "-c", SP>>
    \o quote(test_command) \o <<NL, IND>>

\* sandboxing.py line 89: command=f"/bin/sh -c {shlex.quote(bisect_script)}"
container_command(script) == <<"/bin/sh", SP, "-c", SP>> \o quote(script)

\* what the container runs for a call: the argument list docker starts, and
\* the simple commands its shell then reads from the script argument
SandboxRun(test_command, bad_commit, good_commit) ==
    LET script == bisect_script(test_command, bad_commit, good_commit)
        argv   == shlex_split(container_command(script))
    IN  [argv     |-> argv,
         script   |-> script,
         commands |-> IF Len(argv) >= 3 THEN ShCommands(argv[3]) ELSE << >>]

MaxCmd == 3

CmdSyms  == {"npm", SP, ";", SQ, DQ, BS, "$", NL}
Commands == SeqsUpTo(CmdSyms, MaxCmd)
Commits  == {<<"abc1234">>, <<"HEAD">>}

\* one call, made when no call has been made yet
ApplyBisectCommand ==
    /\ fn = "none"
    /\ \E t \in Commands, b \in Commits, g \in Commits :
           /\ fn' = "run_sandboxed_bisect"
           /\ arg' = [test_command |-> t, bad_commit |-> b, good_commit |-> g]
           /\ out' = SandboxRun(t, b, g)

\* a pure function is applied with the cache empty and no job under way
InitFn == Init /\ dir = [k \in Keys |-> "absent"]

NextQuote == ApplyBisectCommand /\ UNCHANGED <<cacheVars, jobVars, api>>

SpecQuote == InitFn /\ [][NextQuote]_vars

\* a command written word by word, each word a text of one symbol
Words(ws) == [k \in 1..Len(ws) |-> <<ws[k]>>]

\* the commands of the script that do not depend on the test command
FixedCommands(b, g) ==
    << Words(<<"git", "config", "--global", "--add", "safe.directory", "/app">>),
       Words(<<"cd", "/app">>),
       Words(<<"git", "bisect", "reset">>),
       Words(<<"true">>),
       Words(<<"git", "bisect", "start">>),
       Words(<<"git", "bisect", "bad">>) \o <<b>>,
       Words(<<"git", "bisect", "good">>) \o <<g>> >>

\* C8: whatever the test command, the container is started with the
\* arguments /bin/sh, -c and the script as one argument; the shell reads from
\* it the same commands every time, the last being git bisect run /bin/sh -c
\* with the test command, unchanged, as its one further argument.
C8_CommandIsOneArgument ==
    fn = "run_sandboxed_bisect" =>
        /\ out.argv = Words(<<"/bin/sh", "-c">>) \o <<out.script>>
        /\ out.commands =
             FixedCommands(arg.bad_commit, arg.good_commit)
             \o << Words(<<"git", "bisect", "run", "/bin/sh", "-c">>) \o <<arg.test_command>> >>

C8_Witness ==
    /\ fn = "run_sandboxed_bisect"
    /\ arg.test_command = <<";", SP, "npm">>
    /\ Len(out.commands) = 8
    /\ out.commands[8][6] = <<";", SP, "npm">>

\* what a caller may pass as bad_commit and good_commit: any text
CommitTexts ==
    Commits \cup
    { <<"HEAD", SP, "npm">>, <<"HEAD", ";", "npm">>, <<"HEAD", ";", SP, "npm">>,
      <<"HEAD", NL, "npm">>, <<"HEAD", SP, "||", SP, "npm">>, <<"HEAD", ";", "npm", SP, "HEAD">> }

\* one call with any text for the commits, made when no call has been made
ApplyBisectValues ==
    /\ fn = "none"
    /\ \E t \in {c \in Commands : Len(c) <= 1}, b \in CommitTexts, g \in CommitTexts :
           /\ fn' = "run_sandboxed_bisect"
           /\ arg' = [test_command |-> t, bad_commit |-> b, good_commit |-> g]
           /\ out' = SandboxRun(t, b, g)

NextValues == ApplyBisectValues /\ UNCHANGED <<cacheVars, jobVars, api>>

SpecValues == InitFn /\ [][NextValues]_vars

\* C24: each of the three values of the caller, the bad commit, the good
\* commit and the test command, is in the script as one word, the last word
\* of its command, and the script has no command besides its own eight.
C24_EveryValueIsOneToken ==
    fn = "run_sandboxed_bisect" =>
        /\ Len(out.commands) = 8
        /\ out.commands[6] = Words(<<"git", "bisect", "bad">>) \o <<arg.bad_commit>>
        /\ out.commands[7] = Words(<<"git", "bisect", "good">>) \o <<arg.good_commit>>
        /\ out.commands[8][6] = arg.test_command

(***************************************************************************)
(* Inputs of the log parser: sandboxing.py, _parse_bisect_result           *)
(***************************************************************************)
MaxLog == 5

\* blank, newline, the announcement's text, two words of a-f0-9 only and a
\* word that does not end in one of a-f0-9
LogSyms  == {" ", "\n", Phrase, "commit"} \cup HexWords
LogTexts == SeqsUpTo(LogSyms, MaxLog)

\* one call, made when no call has been made yet
ApplyParse ==
    /\ fn = "none"
    /\ \E l \in LogTexts :
           /\ fn' = "_parse_bisect_result"
           /\ arg' = l
           /\ out' = parse_bisect_result(l)

NextParse == ApplyParse /\ UNCHANGED <<cacheVars, jobVars, api>>

SpecParse == InitFn /\ [][NextParse]_vars

\* the places of a log where a run of a-f0-9 ends that a blank and the
\* announcement's text follow
Announced(logs) ==
    {j \in 1..(Len(logs) - 2) :
        logs[j] \in HexWords /\ logs[j + 1] = " " /\ logs[j + 2] = Phrase}

\* text h stands in the log at i..j and no character of a-f0-9 is before it
HashAt(logs, i, j, h) ==
    /\ h = SubSeq(logs, i, j)
    /\ \A n \in i..j : logs[n] \in HexWords
    /\ i > 1 => logs[i - 1] \notin HexWords

\* C28: for every log, when "<hash> is the first bad commit" occurs in it
\* the commit reported is a hash of the log that this text directly
\* follows, and "Not found" when it does not occur; what is reported is
\* never a hash that the log does not hold.
C28_ReportsAnnouncedHashOnly ==
    fn = "_parse_bisect_result" =>
        /\ Announced(arg) # {} =>
              \E j \in Announced(arg) : \E i \in 1..j : HashAt(arg, i, j, out)
        /\ Announced(arg) = {} => out = <<"Not found">>
        /\ out # <<"Not found">> =>
              \E i, j \in 1..Len(arg) : out = SubSeq(arg, i, j)

C28_Witness ==
    /\ fn = "_parse_bisect_result"
    /\ arg = <<"abc1234", "\n", "0f", " ", Phrase>>
    /\ out = <<"0f">>

(***************************************************************************)
(* Inputs of the URL validator                                             *)
(***************************************************************************)
MaxNetloc == 4

Schemes    == {<<"https">>, <<"HTTPS">>, <<"ssh">>}
NetlocSyms == {"github.com", "evil.com", "x", ".", ":", "@"}
Netlocs    == SeqsUpTo(NetlocSyms, MaxNetloc)
Paths      == { << >>, <<"/", "o">>, <<"/", "o", "/", "r">>, <<"/", "o", "/", "r", "/">>,
                <<"/", "o", "/", "r", ".", "git">>, <<"/", "o", "/", "r", "/", "x">>,
                <<"/", "/", "o", "/", "r">>, <<"/", "o", "/", "r", ";", "x">>,
                <<"/", "o", ";", "x", "/", "r">> }
Tails      == { << >>, <<"?">>, <<"?", "q">>, <<"#">>, <<"#", "f">>, <<"?", "q", "#", "f">> }

MaxName == 2

\* owner and repository names: non-empty texts of letters, digits, "_", "."
\* and "-"
NameSyms == {"o", "git", "_", ".", "-"}
Names    == SeqsUpTo(NameSyms, MaxName) \ {<< >>}

\* https://github.com/<owner>/<repo> and https://github.com/<owner>/<repo>.git
GithubRepoUrls ==
    { <<"https", ":", "/", "/", "github.com", "/">> \o o \o <<"/">> \o r \o g :
        o \in Names, r \in Names, g \in {<< >>, <<".", "git">>} }

Urls == { s \o <<":", "/", "/">> \o n \o p \o t :
            s \in Schemes, n \in Netlocs, p \in Paths, t \in Tails }
        \cup GithubRepoUrls

\* one call, made when no call has been made yet
ApplyUrl ==
    /\ fn = "none"
    /\ \E u \in Urls :
           /\ fn' = "is_safe_git_url"
           /\ arg' = u
           /\ out' = is_safe_git_url(u)

NextUrl == ApplyUrl /\ UNCHANGED <<cacheVars, jobVars, api>>

SpecUrl == InitFn /\ [][NextUrl]_vars

\* the hostname property: the netloc after its last "@", up to the first ":"
Hostname(netloc) ==
    LET at    == RFind(netloc, "@")
        loc   == Suffix(netloc, at + 1)
        colon == Find(loc, ":")
    IN  IF colon = 0 THEN loc ELSE Prefix(loc, colon - 1)

HostAllowed(h) ==
    \/ h \in allowed_domains
    \/ \E d \in allowed_domains : EndsWith(h, <<".">> \o d) /\ Len(h) > Len(d) + 1

\* C10: a URL that is_safe_git_url accepts has the scheme https, a host that
\* is an allow-listed domain or a subdomain of one, no user name or password,
\* no query, no fragment, and a path of the form /<owner>/<name>.
C10_RejectsUnsafeUrls ==
    (fn = "is_safe_git_url" /\ out = TRUE) =>
        LET parsed == urlparse(arg)
        IN  /\ parsed.scheme = <<"https">>
            /\ HostAllowed(Hostname(parsed.netloc))
            /\ ~Truthy(parsed.username) /\ ~Truthy(parsed.password)
            /\ parsed.query = << >> /\ parsed.fragment = << >>
            /\ PathMatches(parsed.path)

\* C21: is_safe_git_url accepts every URL https://github.com/<owner>/<repo>
\* and https://github.com/<owner>/<repo>.git whose owner and repo are
\* non-empty and made of letters, digits, "_", "." and "-" only.
C21_AcceptsGithubRepoUrls ==
    (fn = "is_safe_git_url" /\ arg \in GithubRepoUrls) => out = TRUE

C21_Witness ==
    /\ fn = "is_safe_git_url"
    /\ arg = <<"https", ":", "/", "/", "github.com", "/", "o", "-", "/", ".", "_", ".", "git">>
    /\ out = TRUE

(***************************************************************************)
(* Path validator: validation.py, validate_safe_path                       *)
(*                                                                         *)
(* A path is a sequence of symbols: "/", ".", and pieces of names ("repo"  *)
(* followed by "-evil" is the name repo-evil).  The file system is the set  *)
(* of its symbolic links; every other name is a directory or is missing,   *)
(* which realpath treats alike.                                            *)
(***************************************************************************)
\* the names between the "/" of a path, the empty ones left out
RECURSIVE Split(_)
Split(p) ==
    IF p = << >> THEN << >>
    ELSE LET i == FindAny(p, {"/"})
         IN  (IF i = 1 THEN << >> ELSE <<Prefix(p, i - 1)>>)
             \o (IF i >= Len(p) THEN << >> ELSE Split(Suffix(p, i + 1)))

RECURSIVE Concat(_)
Concat(names) ==
    IF names = << >> THEN << >> ELSE <<"/">> \o Head(names) \o Concat(Tail(names))

\* the text of an absolute path made of the given names
Text(names) == IF names = << >> THEN <<"/">> ELSE Concat(names)

isabs(p) == p # << >> /\ p[1] = "/"

curdir == <<".">>
pardir == <<".", ".">>

\* the working directory of the process
Cwd == <<"/", "srv">>

\* os.path.join(a, b)
os_path_join(a, b) ==
    IF isabs(b) THEN b
    ELSE IF a = << >> \/ a[Len(a)] = "/" THEN a \o b
    ELSE a \o <<"/">> \o b

\* posixpath._joinrealpath: path is the resolved part, as names; rest the
\* names still to read; links the symbolic links of the file system
RECURSIVE joinrealpath(_, _, _)
joinrealpath(path, rest, links) ==
    IF rest = << >> THEN path
    ELSE LET name    == Head(rest)
             newpath == Append(path, name)
         IN  IF name = curdir THEN joinrealpath(path, Tail(rest), links)
             ELSE IF name = pardir
                  THEN joinrealpath(IF path = << >> THEN path ELSE Prefix(path, Len(path) - 1),
                                    Tail(rest), links)
             ELSE IF \E l \in links : l.at = newpath
                  THEN LET to == (CHOOSE l \in links : l.at = newpath).to
                       IN  joinrealpath(IF isabs(to) THEN << >> ELSE path,
                                        Split(to) \o Tail(rest), links)
             ELSE joinrealpath(newpath, Tail(rest), links)

\* os.path.realpath
realpath(p, links) ==
    Text(joinrealpath(IF isabs(p) THEN << >> ELSE Split(Cwd), Split(p), links))

\* os.path.commonprefix of two texts: the longest common prefix, character
\* by character
commonprefix(a, b) ==
    LET same == {n \in 0..Len(a) : n <= Len(b) /\ \A k \in 1..n : a[k] = b[k]}
    IN  Prefix(a, CHOOSE n \in same : \A m \in same : m <= n)

ValueError == [ok |-> FALSE, path |-> <<"ValueError">>]

validate_safe_path(base_dir, user_path, links) ==
    LET base           == realpath(base_dir, links)
        full_path_raw  == os_path_join(base, user_path)
        full_path_real == realpath(full_path_raw, links)
        common_prefix  == commonprefix(base, full_path_real)
    IN  IF common_prefix # base THEN ValueError
        ELSE [ok |-> TRUE, path |-> full_path_real]

MaxPath == 5

PathSyms  == {"/", ".", "repo", "-evil", "ln"}
UserPaths == SeqsUpTo(PathSyms, MaxPath)
BaseDirs  == {<<"/", "srv", "/", "repo">>, <<"/", "srv", "/", "repo", "/">>,
              <<"/", "srv", "/", "ln">>, <<"repo">>, <<"/">>}

Link(at, to) == [at |-> at, to |-> to]

\* file systems: no link; a link in the root to /etc; a link in the root to
\* ../repo-evil; a link in the root to the root's repo; a link /srv/ln to repo
FileSystems ==
    { {},
      {Link(<<<<"srv">>, <<"repo">>, <<"ln">>>>, <<"/", "etc">>)},
      {Link(<<<<"srv">>, <<"repo">>, <<"ln">>>>, <<".", ".", "/", "repo", "-evil">>)},
      {Link(<<<<"srv">>, <<"repo">>, <<"ln">>>>, <<"repo">>)},
      {Link(<<<<"srv">>, <<"ln">>>>, <<"repo">>)} }

\* one call, made when no call has been made yet
ApplyPath ==
    /\ fn = "none"
    /\ \E b \in BaseDirs, u \in UserPaths, l \in FileSystems :
           /\ fn' = "validate_safe_path"
           /\ arg' = [base_dir |-> b, user_path |-> u, links |-> l]
           /\ out' = validate_safe_path(b, u, l)

NextPath == ApplyPath /\ UNCHANGED <<cacheVars, jobVars, api>>

SpecPath == InitFn /\ [][NextPath]_vars

\* path p is root itself or below it, name by name
Within(p, root) == StartsWith(Split(p), Split(root))

\* C9: validate_safe_path returns the canonical joined path exactly when that
\* path is the canonical root or a descendant of it by whole names, and
\* raises the traversal error otherwise.
C9_AcceptsExactlyWithinRoot ==
    fn = "validate_safe_path" =>
        LET root  == realpath(arg.base_dir, arg.links)
            canon == realpath(os_path_join(root, arg.user_path), arg.links)
        IN  /\ out.ok <=> Within(canon, root)
            /\ out.ok => out.path = canon
            /\ ~out.ok => out = ValueError

(***************************************************************************)
(* Request handlers: main.py.  One request is handled at a time; the       *)
(* handlers of the /public endpoints call get_repo, as caller ApiCaller.   *)
(***************************************************************************)
MaxRequests == 2

ApiCaller == "c1"

LocalHandlers  == {"local_file_history", "local_file_content", "local_tree"}
PublicHandlers == {"public_file_history", "public_file_content", "public_tree"}
TreeHandlers   == {"local_tree", "public_tree"}

\* settings.LOCAL_REPO_PATH
LOCAL_REPO_PATH == <<"/", "srv", "/", "repo">>

\* request.path: a text, or nothing for a tree request (Optional[str])
RequestPaths ==
    { << >>, <<"/">>, <<"repo">>, <<"ln">>, <<".", ".">>, <<"/", "etc">>,
      <<".", ".", "/", "repo", "-evil">>, <<"repo", "/", ".", ".", "/", "ln">> }

\* the number of leading names two lists of names share
CommonNames(a, b) ==
    LET same == {n \in 0..Len(a) : n <= Len(b) /\ \A k \in 1..n : a[k] = b[k]}
    IN  CHOOSE n \in same : \A m \in same : m <= n

\* os.path.relpath(path, start) for absolute paths with no "." or ".."
\* names: up from start to the common directory, then down to path
relpath(path, start) ==
    LET a     == Split(path)
        b     == Split(start)
        i     == CommonNames(a, b)
        names == [k \in 1..(Len(b) - i) |-> pardir] \o SubSeq(a, i + 1, Len(a))
    IN  IF names = << >> THEN curdir ELSE Tail(Concat(names))

\* a request arrives; the /local handlers take settings.LOCAL_REPO_PATH
ApiRequest ==
    /\ api.pc \in {"idle", "done"}
    /\ api.n < MaxRequests
    /\ \E h \in LocalHandlers \cup PublicHandlers,
          p \in RequestPaths \cup {None}, l \in FileSystems, u \in CacheUrls :
          /\ p = None => h \in TreeHandlers
          /\ h \in LocalHandlers => u = UrlA
          /\ api' = [pc |-> IF h \in LocalHandlers THEN "validate" ELSE "calling",
                     n |-> api.n + 1, handler |-> h, path |-> p, links |-> l,
                     url |-> IF h \in LocalHandlers THEN NoUrl ELSE u,
                     repo |-> IF h \in LocalHandlers THEN LOCAL_REPO_PATH ELSE << >>,
                     safe |-> NotRun, rel |-> None, read |-> NoRead, status |-> 0]
    /\ UNCHANGED <<cacheVars, jobVars, fnVars>>

\* lines 126, 154, 175: repo_manager.get_repo(request.repo_url) is entered
ApiCallRepo ==
    /\ api.pc = "calling"
    /\ CallBody(ApiCaller, api.url)
    /\ api' = [api EXCEPT !.pc = "in_get_repo"]
    /\ UNCHANGED <<jobVars, fnVars>>

\* get_repo runs
ApiRepoStep ==
    /\ api.pc = "in_get_repo"
    /\ GetRepoStep(ApiCaller)
    /\ UNCHANGED <<jobVars, fnVars, api>>

\* lines 132-134, 157-158, 180-181: get_repo raised ValueError or
\* RuntimeError
ApiRepoFailed ==
    /\ api.pc = "in_get_repo"
    /\ pc[ApiCaller] = "raised"
    /\ api' = [api EXCEPT !.pc = "done", !.status = 400]
    /\ UNCHANGED <<cacheVars, jobVars, fnVars>>

\* get_repo returned repo_path
ApiRepoReturned ==
    /\ api.pc = "in_get_repo"
    /\ pc[ApiCaller] = "returned"
    /\ api' = [api EXCEPT !.pc = "validate", !.repo = ret[ApiCaller].path]
    /\ UNCHANGED <<cacheVars, jobVars, fnVars>>

\* a handler that takes the path of the request as it is
ApiValidateNothing ==
    /\ api.pc = "validate"
    /\ api' = [api EXCEPT !.pc = "read", !.rel = api.path]
    /\ UNCHANGED <<cacheVars, jobVars, fnVars>>

\* lines 27-36, 56-60, 79-85 and their /public counterparts:
\* validate_safe_path and relpath, ValueError answered with 400; the tree
\* handlers call them only `if request.path and request.path != "/"`
ApiValidate ==
    /\ api.pc = "validate"
    /\ IF api.handler \in TreeHandlers /\ ~(Truthy(api.path) /\ api.path # <<"/">>)
       THEN api' = [api EXCEPT !.pc = "read"]
       ELSE LET v == validate_safe_path(api.repo, api.path, api.links)
            IN  IF v.ok
                THEN api' = [api EXCEPT !.pc = "read", !.safe = v,
                                        !.rel = relpath(v.path, api.repo)]
                ELSE api' = [api EXCEPT !.pc = "done", !.safe = v, !.status = 400]
    /\ UNCHANGED <<cacheVars, jobVars, fnVars>>

\* lines 39-48, 62-69, 87-94: the function of tools.py is called with
\* relative_path; nothing found is answered with 404
ApiRead ==
    /\ api.pc = "read"
    /\ \E found \in BOOLEAN :
          api' = [api EXCEPT !.pc = "done", !.read = api.rel,
                             !.status = IF found THEN 200 ELSE 404]
    /\ UNCHANGED <<cacheVars, jobVars, fnVars>>

ApiNext ==
    \/ ApiRequest
    \/ ApiCallRepo
    \/ ApiRepoStep
    \/ ApiRepoFailed
    \/ ApiRepoReturned
    \/ ApiValidate
    \/ ApiRead

SpecApi == InitJob /\ [][ApiNext]_vars

\* the paths a tree handler takes for the root of the repository
RootPaths == {None, << >>, <<"/">>}

\* C23: a handler has called tools.py with a path only after
\* validate_safe_path ran on the path of the request, against the
\* repository of the request, and accepted it, the path read being the
\* accepted one relative to the repository; after a validation that failed
\* there is no read and the answer is 400; and a read made with validation
\* skipped is a tree handler's read of the root, made with no path.
C23_ValidatedBeforeRead ==
    /\ api.read # NoRead =>
          \/ /\ api.safe = validate_safe_path(api.repo, api.path, api.links)
             /\ api.safe.ok
             /\ api.read = relpath(api.safe.path, api.repo)
          \/ /\ api.safe = NotRun
             /\ api.handler \in TreeHandlers /\ api.path \in RootPaths
             /\ api.read = None
    /\ (api.safe # NotRun /\ ~api.safe.ok) =>
          /\ api.read = NoRead
          /\ api.pc = "done" /\ api.status = 400
    /\ (api.pc = "done" /\ api.read = NoRead) => api.status = 400

C23_Witness ==
    /\ api.pc = "done" /\ api.n = 2
    /\ api.handler = "public_tree"
    /\ api.path = <<"repo", "/", ".", ".", "/", "ln">>
    /\ api.safe.ok
    /\ api.read = <<"ln">>
    /\ api.status = 200

====
